---------------------------- MODULE Spec2Model ----------------------------
(***************************************************************************)
(* Support-ticket lifecycle of the scholarship portal (src/bsi.py):        *)
(* ticket creation, the admin workflow (status, assignment, running admin  *)
(* note, activity log), the per-ticket chat with its two read flags, user  *)
(* administration, and the human-readable ticket number.                   *)
(*                                                                         *)
(* Text is a sequence of one-character strings; an optional column value   *)
(* (NULL or a value) is the empty or the one-element sequence.             *)
(***************************************************************************)
EXTENDS Integers, Sequences, FiniteSets, Bags, TLC

(* ------------------------------ bounds -------------------------------- *)

NUsers == 2
MaxTickets == 1
MaxMsgs == 2
MaxLogs == 4
MaxNotes == 3
MaxEdits == 1
MaxClock == 1
MaxDigits == 4
NPosts == 1
NReqs == 2

(* ------------------------- program constants -------------------------- *)

TitleMax == 120
WIBOffset == 7

(* ------------------------------- state -------------------------------- *)

VARIABLES
  users,      \* table users: id -> [exists, role, is_active, email, password]
  tickets,    \* table tickets: sequence indexed by ticket id
  messages,   \* table ticket_messages, in insertion order
  logs,       \* table activity_logs: a bag of rows (no handler reads their order)
  now,        \* the wall clock, in minutes
  last,       \* the request the latest step served, with its response
  fticket,    \* format_ticket_number: the ticket passed in
  fnumber,    \* format_ticket_number: the string returned (None before a call)
  settings,   \* table settings: the value of the row allow_admin_signup (None: no row)
  session,    \* session["user_id"] of the browser that logs in and out
  registrations, \* table post_registrations, in insertion order
  reactions,  \* table post_reactions, in insertion order
  reqs,       \* admin_tickets POSTs in flight: each one's position and ORM session
  numbering   \* the deployment's zone, clock origin and first ticket id; the numbers /profile showed

vars == <<users, tickets, messages, logs, now, last, fticket, fnumber,
          settings, session, registrations, reactions, reqs, numbering>>

\* the tables, the cookie and the requests in flight that the ticket handlers
\* served in one step leave alone
portal == <<settings, session, registrations, reactions, reqs, numbering>>

None == <<>>
Some(x) == <<x>>

UserIds == 1..NUsers

\* session.get("user_id") of a browser that is not logged in
NoSession == 0
SessionIds == {NoSession} \cup UserIds
Roles == {"admin", "user"}
Statuses == {"open", "in_progress", "resolved", "closed"}
Actions == {"accept", "complete", "close", "reopen"}

(* ------------------------------- text --------------------------------- *)

WS == {" ", "\n"}

RECURSIVE LStrip(_)
LStrip(s) ==
  IF s = <<>> THEN s
  ELSE IF Head(s) \in WS THEN LStrip(Tail(s)) ELSE s

RECURSIVE RStrip(_)
RStrip(s) ==
  IF s = <<>> THEN s
  ELSE IF s[Len(s)] \in WS THEN RStrip(SubSeq(s, 1, Len(s) - 1)) ELSE s

\* str.strip()
Strip(s) == RStrip(LStrip(s))

\* str.split("\n")[0]
RECURSIVE FirstLine(_)
FirstLine(s) ==
  IF s = <<>> THEN s
  ELSE IF Head(s) = "\n" THEN <<>> ELSE <<Head(s)>> \o FirstLine(Tail(s))

\* the short title ticket_new derives from the description
ShortTitle(desc) ==
  LET first == FirstLine(Strip(desc))
  IN IF Len(first) > TitleMax
       THEN SubSeq(first, 1, TitleMax) \o <<".", ".", ".">>
       ELSE first

\* datetime.now(WIB).strftime("%d %b %Y, %H:%M WIB"): one token per minute
Stamp(t) == <<ToString(t)>>

\* str.lower(), on the letters the inputs use
LowerChar(c) == CASE c = "U" -> "u" [] c = "N" -> "n" [] OTHER -> c

Lower(s) == [i \in 1..Len(s) |-> LowerChar(s[i])]

NoteInputs == {<<>>, <<" ">>, <<"a">>, <<" ", "a", "\n">>}
DescInputs == {<<" ">>, <<"d">>}
MsgInputs == {<<" ">>, <<"m">>}


(* ------------------------------ helpers ------------------------------- *)

\* mutant: any logged-in session passes
IsAdmin_AnyRole(u) == u \in UserIds /\ users[u].exists

\* admin_required: the session's user exists and has role admin
IsAdmin(u) == u \in UserIds /\ users[u].exists /\ users[u].role = "admin"

\* log_action: one activity_logs row, added to the table
LogRow(uid, action, detail) == [user_id |-> uid, action |-> action, detail |-> detail]

LogAction(table, uid, action, detail) == table (+) SetToBag({LogRow(uid, action, detail)})

LogCount == BagCardinality(logs)

\* the e-mail address of a users row
Email(u) == users[u].email

\* the address and the password of an account that exists at the start
InitEmail(u) == <<"u", ToString(u)>>
InitPassword == <<"p">>

\* User.query.filter_by(email=...).first(): the ids of the rows with the address
ByEmail(email) == {u \in UserIds : users[u].exists /\ users[u].email = email}

\* a served request (handler, session user, ticket id, form action) and its response
Response(op, u, tid, action, body) ==
  [op |-> op, uid |-> u, tid |-> tid, action |-> action, body |-> body]

NoRequest == Response("none", 0, 0, "", <<>>)

TicketIds == 1..Len(tickets)

(* ----------------------------- ticket_new ----------------------------- *)

\* the row ticket_new inserts; description, category and attachment_path are
\* columns no handler here reads back
NewTicket(u, desc) ==
  [user_id |-> u,
   title |-> ShortTitle(desc),
   status |-> "open",
   created_at |-> now,
   completed_at |-> None,
   admin_note |-> None,
   assigned_admin_id |-> None]

\* POST /tickets/new by the session user u, while the table holds fewer than
\* cap rows
TicketNewUpTo(u, desc, cap) ==
  /\ IF ~users[u].exists
       THEN /\ last' = Response("ticket_new", u, 0, "", <<"login">>)
            /\ UNCHANGED <<tickets, logs>>
       ELSE IF Strip(desc) = <<>>
         THEN /\ last' = Response("ticket_new", u, 0, "", <<"description_required">>)
              /\ UNCHANGED <<tickets, logs>>
         ELSE /\ Len(tickets) < cap
              /\ LogCount < MaxLogs
              /\ tickets' = Append(tickets, NewTicket(u, desc))
              /\ logs' = LogAction(logs, Some(u), "ticket_create", ShortTitle(desc))
              /\ last' = Response("ticket_new", u, Len(tickets) + 1, "", <<"created">>)
  /\ UNCHANGED <<users, messages, now, fticket, fnumber, portal>>

TicketNew(u, desc) == TicketNewUpTo(u, desc, MaxTickets)

(* ---------------------------- admin_tickets --------------------------- *)

\* mutant: every action assigns the acting admin
AssignAdmin_Always(t, a) == [t EXCEPT !.assigned_admin_id = Some(a)]

\* "Assign admin automatically on any action if not yet assigned"
AssignAdmin(t, a) ==
  IF t.assigned_admin_id = None THEN [t EXCEPT !.assigned_admin_id = Some(a)] ELSE t

\* mutant: the closed check is missing
IsClosed_Never(t) == FALSE

\* "Closed ticket cannot be changed further"
IsClosed(t) == t.status = "closed"

\* mutant: an action the handler does not know becomes the status
ApplyAction_StatusFromForm(t, action) ==
  CASE action = "accept" ->
         IF t.status = "open" THEN [t EXCEPT !.status = "in_progress"] ELSE t
    [] action = "complete" ->
         IF t.status \in {"in_progress", "resolved"}
           THEN [t EXCEPT
                   !.completed_at =
                      IF t.status # "resolved" /\ t.completed_at = None
                        THEN Some(now) ELSE t.completed_at,
                   !.status = "resolved"]
           ELSE t
    [] action = "close" ->
         IF t.status # "closed" THEN [t EXCEPT !.status = "closed"] ELSE t
    [] OTHER -> [t EXCEPT !.status = action]

\* mutant: accept does not look at the status
ApplyAction_AcceptAlways(t, action) ==
  CASE action = "accept" -> [t EXCEPT !.status = "in_progress"]
    [] action = "complete" ->
         IF t.status \in {"in_progress", "resolved"}
           THEN [t EXCEPT
                   !.completed_at =
                      IF t.status # "resolved" /\ t.completed_at = None
                        THEN Some(now) ELSE t.completed_at,
                   !.status = "resolved"]
           ELSE t
    [] action = "close" ->
         IF t.status # "closed" THEN [t EXCEPT !.status = "closed"] ELSE t
    [] OTHER -> t

\* mutant: complete stamps completed_at every time
ApplyAction_Restamp(t, action) ==
  CASE action = "accept" ->
         IF t.status = "open" THEN [t EXCEPT !.status = "in_progress"] ELSE t
    [] action = "complete" ->
         IF t.status \in {"in_progress", "resolved"}
           THEN [t EXCEPT !.completed_at = Some(now), !.status = "resolved"]
           ELSE t
    [] action = "close" ->
         IF t.status # "closed" THEN [t EXCEPT !.status = "closed"] ELSE t
    [] OTHER -> t

\* the status and completed_at an action leaves on the ticket
ApplyAction(t, action) ==
  CASE action = "accept" ->
         IF t.status = "open" THEN [t EXCEPT !.status = "in_progress"] ELSE t
    [] action = "complete" ->
         IF t.status \in {"in_progress", "resolved"}
           THEN [t EXCEPT
                   !.completed_at =
                      IF t.status # "resolved" /\ t.completed_at = None
                        THEN Some(now) ELSE t.completed_at,
                   !.status = "resolved"]
           ELSE t
    [] action = "close" ->
         IF t.status # "closed" THEN [t EXCEPT !.status = "closed"] ELSE t
    [] OTHER -> t

\* the ticket_update_status row an action writes: one for each known action,
\* whether or not the status changed
ActionLog(table, a, tid, action) ==
  CASE action = "accept" ->
         LogAction(table, Some(a), "ticket_update_status", <<ToString(tid), ":", "in_progress">>)
    [] action = "complete" ->
         LogAction(table, Some(a), "ticket_update_status", <<ToString(tid), ":", "resolved">>)
    [] action = "close" ->
         LogAction(table, Some(a), "ticket_update_status", <<ToString(tid), ":", "closed">>)
    [] OTHER -> table

\* mutant: the new entry replaces the running note
AppendNote_Overwrite(t, note) ==
  [t EXCEPT !.admin_note = <<"[">> \o Stamp(now) \o <<"]", " ">> \o note]

\* "Append admin note as running log": note is the stripped, non-empty input
AppendNote(t, note) ==
  LET prefix == <<"[">> \o Stamp(now) \o <<"]", " ">>
      existing == Strip(t.admin_note)
  IN [t EXCEPT !.admin_note =
        IF existing # <<>> THEN existing \o <<"\n">> \o prefix \o note
        ELSE prefix \o note]

\* mutant: a blank note is taken like any other
NoteMissing_Never(note) == FALSE

\* "if not new_note: ... Catatan admin wajib diisi"
NoteMissing(note) == note = <<>>

\* the number of entries of a running note: one "[" per entry
NoteCount(t) == Cardinality({i \in 1..Len(t.admin_note) : t.admin_note[i] = "["})

\* POST /admin/tickets by the session user a
AdminTicketsPost(a, action, tid, raw) ==
  LET note == Strip(raw) IN
  /\ IF a = NoSession
       THEN /\ last' = Response("admin_tickets", a, tid, action, <<"login">>)
            /\ UNCHANGED <<tickets, logs>>
       ELSE IF ~IsAdmin(a)
       THEN /\ last' = Response("admin_tickets", a, tid, action, <<"no_admin_access">>)
            /\ UNCHANGED <<tickets, logs>>
       ELSE IF NoteMissing(note)
         THEN /\ last' = Response("admin_tickets", a, tid, action, <<"note_required">>)
              /\ UNCHANGED <<tickets, logs>>
         ELSE IF tid \notin TicketIds
           THEN /\ last' = Response("admin_tickets", a, tid, action, <<"not_found">>)
                /\ UNCHANGED <<tickets, logs>>
           ELSE LET assigned == AssignAdmin(tickets[tid], a) IN
                IF IsClosed(assigned)
                  \* the assignment stays in the request's session: no commit
                  THEN /\ last' = Response("admin_tickets", a, tid, action, <<"already_closed">>)
                       /\ UNCHANGED <<tickets, logs>>
                  ELSE /\ NoteCount(tickets[tid]) < MaxNotes
                       /\ BagCardinality(ActionLog(logs, a, tid, action)) <= MaxLogs
                       /\ tickets' = [tickets EXCEPT
                                        ![tid] = AppendNote(ApplyAction(assigned, action), note)]
                       /\ logs' = ActionLog(logs, a, tid, action)
                       /\ last' = Response("admin_tickets", a, tid, action, <<"updated">>)
  /\ UNCHANGED <<users, messages, now, fticket, fnumber, portal>>

(* ------------------ admin_tickets, requests in flight ----------------- *)

\* Each POST runs in its own ORM session and is served in steps: it loads the
\* ticket, log_action commits (which writes the columns changed so far and
\* expires the loaded row), the note is appended to the row as the session
\* then reads it, and the last commit writes it.  The database runs at READ
\* COMMITTED: a commit overwrites the columns it writes.

Reqs == 1..NReqs

\* the notes of requests in flight: two texts, and a blank one
RaceNoteInputs == {<<" ">>, <<"a">>, <<" ", "b">>}

\* a request slot before its request arrives; wrote (the request has
\* committed), moved (its commit changed the status), claimed (it found the
\* ticket unassigned) and peers (the requests that held the ticket when it
\* first committed) record what the request did
IdleReq ==
  [pc |-> "idle", uid |-> NoSession, action |-> "", tid |-> 0, note |-> <<>>,
   row |-> None, loaded |-> None, expired |-> FALSE,
   wrote |-> FALSE, moved |-> FALSE, claimed |-> FALSE, peers |-> {}]

\* the requests that hold a loaded ticket and have committed nothing yet
Pending(r) == {q \in Reqs \ {r} : reqs[q].pc \in {"log", "note", "commit"} /\ ~reqs[q].wrote}

\* the actions whose branch calls log_action
Logged(action) == action \in {"accept", "complete", "close"}

\* UPDATE tickets SET <the columns the session changed> WHERE id = ...
Flushed(db, row, loaded) ==
  [c \in DOMAIN db |-> IF row[c] # loaded[c] THEN row[c] ELSE db[c]]

\* the request returns without a ticket in hand
RaceReject(r, a, action, tid, body) ==
  /\ reqs' = [reqs EXCEPT ![r] = [IdleReq EXCEPT !.pc = "done", !.uid = a,
                                                 !.action = action, !.tid = tid]]
  /\ last' = Response("admin_tickets", a, tid, action, body)

\* the request arrives: decorators, note check, Ticket.query.get, and the
\* changes the handler makes to the loaded row before log_action
RaceStart(r, a, action, tid, raw) ==
  LET note == Strip(raw) IN
  /\ reqs[r].pc = "idle"
  /\ IF a = NoSession THEN RaceReject(r, a, action, tid, <<"login">>)
     ELSE IF ~IsAdmin(a) THEN RaceReject(r, a, action, tid, <<"no_admin_access">>)
     ELSE IF NoteMissing(note) THEN RaceReject(r, a, action, tid, <<"note_required">>)
     ELSE IF tid \notin TicketIds THEN RaceReject(r, a, action, tid, <<"not_found">>)
     ELSE LET assigned == AssignAdmin(tickets[tid], a) IN
          IF IsClosed(assigned)
            THEN RaceReject(r, a, action, tid, <<"already_closed">>)
            ELSE /\ reqs' = [reqs EXCEPT ![r] =
                               [pc |-> IF Logged(action) THEN "log" ELSE "note",
                                uid |-> a, action |-> action, tid |-> tid, note |-> note,
                                row |-> Some(ApplyAction(assigned, action)),
                                loaded |-> Some(tickets[tid]),
                                expired |-> FALSE,
                                wrote |-> FALSE, moved |-> FALSE,
                                claimed |-> (tickets[tid].assigned_admin_id = None),
                                peers |-> {}]]
                 /\ last' = NoRequest
  /\ UNCHANGED <<users, tickets, messages, logs, now, fticket, fnumber,
                 settings, session, registrations, reactions, numbering>>

\* log_action: the log row and the row's changed columns are committed, the
\* session's row expires
RaceLogAction(r) ==
  LET q == reqs[r]
      written == Flushed(tickets[q.tid], q.row[1], q.loaded[1])
  IN
  /\ q.pc = "log"
  /\ BagCardinality(ActionLog(logs, q.uid, q.tid, q.action)) <= MaxLogs
  /\ tickets' = [tickets EXCEPT ![q.tid] = written]
  /\ logs' = ActionLog(logs, q.uid, q.tid, q.action)
  /\ reqs' = [reqs EXCEPT ![r].pc = "note", ![r].expired = TRUE,
                          ![r].wrote = TRUE, ![r].peers = Pending(r),
                          ![r].moved = (written.status # tickets[q.tid].status)]
  /\ last' = NoRequest
  /\ UNCHANGED <<users, messages, now, fticket, fnumber,
                 settings, session, registrations, reactions, numbering>>

\* "Append admin note as running log": reading admin_note reloads an expired
\* row from the database
RaceAppendNote(r) ==
  LET q == reqs[r]
      current == IF q.expired THEN tickets[q.tid] ELSE q.row[1]
      loaded == IF q.expired THEN tickets[q.tid] ELSE q.loaded[1]
  IN
  /\ q.pc = "note"
  /\ NoteCount(current) < MaxNotes
  /\ reqs' = [reqs EXCEPT ![r].pc = "commit", ![r].expired = FALSE,
                          ![r].row = Some(AppendNote(current, q.note)),
                          ![r].loaded = Some(loaded)]
  /\ last' = NoRequest
  /\ UNCHANGED <<users, tickets, messages, logs, now, fticket, fnumber,
                 settings, session, registrations, reactions, numbering>>

\* db.session.commit() at the end of the handler
RaceCommit(r) ==
  LET q == reqs[r] IN
  /\ q.pc = "commit"
  /\ tickets' = [tickets EXCEPT ![q.tid] = Flushed(tickets[q.tid], q.row[1], q.loaded[1])]
  /\ reqs' = [reqs EXCEPT ![r].pc = "done", ![r].row = None, ![r].loaded = None,
                          ![r].wrote = TRUE,
                          ![r].peers = IF q.wrote THEN q.peers ELSE Pending(r)]
  /\ last' = Response("admin_tickets", q.uid, q.tid, q.action, <<"updated">>)
  /\ UNCHANGED <<users, messages, logs, now, fticket, fnumber,
                 settings, session, registrations, reactions, numbering>>

(* -------------------------------- chat -------------------------------- *)

MessageIds == 1..Len(messages)

\* mutant: any logged-in user may use the chat
ChatPermitted_Anyone(u, tid) == TRUE

\* "Hanya admin atau pemilik tiket yang boleh mengakses"
ChatPermitted(u, tid) == users[u].role = "admin" \/ tickets[tid].user_id = u

\* chat_messages: the read flag set on one row for the side that opened the chat
MarkRead(m, u) ==
  IF users[u].role = "admin"
    THEN IF m.sender_id # u /\ ~m.is_read_admin THEN [m EXCEPT !.is_read_admin = TRUE] ELSE m
    ELSE IF m.sender_id # u /\ ~m.is_read_user THEN [m EXCEPT !.is_read_user = TRUE] ELSE m

\* the rows of one ticket, in created_at order, as the JSON list returned to u
RECURSIVE MessageList(_, _, _)
MessageList(msgs, u, tid) ==
  IF msgs = <<>> THEN <<>>
  ELSE (IF Head(msgs).ticket_id = tid
          THEN <<[text |-> Head(msgs).message, me |-> Head(msgs).sender_id = u]>>
          ELSE <<>>) \o MessageList(Tail(msgs), u, tid)

\* GET /ticket/<tid>/messages by the session user u
ChatMessages(u, tid) ==
  /\ IF tid \notin TicketIds
       THEN /\ last' = Response("chat_messages", u, tid, "", <<"404">>)
            /\ UNCHANGED messages
       ELSE IF ~users[u].exists
         THEN /\ last' = Response("chat_messages", u, tid, "", <<"500">>)
              /\ UNCHANGED messages
         ELSE IF ~ChatPermitted(u, tid)
           THEN /\ last' = Response("chat_messages", u, tid, "", <<"json", <<>>>>)
                /\ UNCHANGED messages
           ELSE /\ messages' = [i \in MessageIds |->
                                  IF messages[i].ticket_id = tid
                                    THEN MarkRead(messages[i], u) ELSE messages[i]]
                /\ last' = Response("chat_messages", u, tid, "",
                                    <<"json", MessageList(messages, u, tid)>>)
  /\ UNCHANGED <<users, tickets, logs, now, fticket, fnumber, portal>>

\* mutant: the row keeps the column defaults of both read flags
NewMessage_DefaultFlags(u, tid, text) ==
  [ticket_id |-> tid,
   sender_id |-> u,
   message |-> text,
   is_read_admin |-> FALSE,
   is_read_user |-> FALSE]

\* the row chat_send inserts: read for the sender's side, unread for the other;
\* created_at only orders the rows, which the sequence does
NewMessage(u, tid, text) ==
  [ticket_id |-> tid,
   sender_id |-> u,
   message |-> text,
   is_read_admin |-> (users[u].role = "admin"),
   is_read_user |-> ~(users[u].role = "admin")]

\* POST /ticket/<tid>/send by the session user u
ChatSend(u, tid, raw) ==
  /\ IF tid \notin TicketIds
       THEN /\ last' = Response("chat_send", u, tid, "", <<"404">>)
            /\ UNCHANGED messages
       ELSE IF ~users[u].exists
         THEN /\ last' = Response("chat_send", u, tid, "", <<"500">>)
              /\ UNCHANGED messages
         ELSE IF ~ChatPermitted(u, tid) \/ Strip(raw) = <<>>
           THEN /\ last' = Response("chat_send", u, tid, "", <<"json", FALSE>>)
                /\ UNCHANGED messages
           ELSE /\ Len(messages) < MaxMsgs
                /\ messages' = Append(messages, NewMessage(u, tid, Strip(raw)))
                /\ last' = Response("chat_send", u, tid, "", <<"json", TRUE>>)
  /\ UNCHANGED <<users, tickets, logs, now, fticket, fnumber, portal>>

\* tickets(): the unread badge of the owner's ticket tid
UnreadForUser(u, tid) ==
  Cardinality({i \in MessageIds :
                 /\ messages[i].ticket_id = tid
                 /\ ~messages[i].is_read_user
                 /\ messages[i].sender_id # u})

\* admin_tickets(): the unread badge of ticket tid in the admin's list
UnreadForAdmin(a, tid) ==
  Cardinality({i \in MessageIds :
                 /\ messages[i].ticket_id = tid
                 /\ users[a].role = "admin"
                 /\ ~messages[i].is_read_admin
                 /\ messages[i].sender_id # a})

(* --------------------------- admin_user_edit -------------------------- *)

\* rows that keep the users row from being deleted: tickets.user_id is NOT NULL,
\* ticket_messages.sender_id, post_registrations.user_id and
\* post_reactions.user_id reference users
HasDependents(target) ==
  \/ \E t \in TicketIds : tickets[t].user_id = target
  \/ \E i \in MessageIds : messages[i].sender_id = target
  \/ \E i \in 1..Len(registrations) : registrations[i].user_id = target
  \/ \E i \in 1..Len(reactions) : reactions[i].user_id = target

\* the user edits served so far: each writes one activity_logs row
EditCount ==
  BagCardinality([r \in {x \in BagToSet(logs) :
                          x.action \in {"admin_delete_user", "admin_update_user"}} |-> logs[r]])

\* deleting a users row: the ORM sets user_id of its loaded activity_logs rows
\* to NULL
NullifyLogs(table, target) ==
  LET rows == BagToSet(table)
      Orphan(r) == IF r.user_id = Some(target) THEN [r EXCEPT !.user_id = None] ELSE r
      Copies(r) == IF r \in rows THEN table[r] ELSE 0
  IN [x \in {Orphan(r) : r \in rows} |->
        Copies(x) + (IF x.user_id = None
                       THEN Copies([x EXCEPT !.user_id = Some(target)]) ELSE 0)]

\* POST /admin/users/<target> by the session user a: action delete, or the
\* form's role, is_active box, e-mail (blank: kept) and new password (blank:
\* kept); the other text fields are columns no handler here reads back
AdminUserEdit(a, target, action, role, active, email, newpw) ==
  /\ IF a = NoSession
       THEN /\ last' = Response("admin_user_edit", a, 0, action, <<"login">>)
            /\ UNCHANGED <<users, tickets, logs>>
       ELSE IF ~IsAdmin(a)
       THEN /\ last' = Response("admin_user_edit", a, 0, action, <<"no_admin_access">>)
            /\ UNCHANGED <<users, tickets, logs>>
       ELSE IF ~users[target].exists
         THEN /\ last' = Response("admin_user_edit", a, 0, action, <<"404">>)
              /\ UNCHANGED <<users, tickets, logs>>
         ELSE /\ LogCount < MaxLogs
              /\ EditCount < MaxEdits
              /\ IF action = "delete"
                   THEN IF HasDependents(target)
                     \* the log row is committed, the delete fails on the constraint
                     THEN /\ logs' = LogAction(logs, Some(a), "admin_delete_user", Email(target))
                          /\ last' = Response("admin_user_edit", a, 0, action, <<"500">>)
                          /\ UNCHANGED <<users, tickets>>
                     \* the ORM sets the foreign keys of the loaded children to NULL
                     ELSE /\ users' = [users EXCEPT ![target].exists = FALSE]
                          /\ tickets' = [t \in TicketIds |->
                                           IF tickets[t].assigned_admin_id = Some(target)
                                             THEN [tickets[t] EXCEPT !.assigned_admin_id = None]
                                             ELSE tickets[t]]
                          /\ logs' = NullifyLogs(LogAction(logs, Some(a), "admin_delete_user",
                                                            Email(target)), target)
                          /\ last' = Response("admin_user_edit", a, 0, action, <<"deleted">>)
                   ELSE LET address == IF Lower(Strip(email)) # <<>>
                                         THEN Lower(Strip(email)) ELSE users[target].email
                            edited == [users[target] EXCEPT
                                         !.email = address,
                                         !.role = role,
                                         !.is_active = active,
                                         !.password = IF Strip(newpw) # <<>>
                                                        THEN Strip(newpw) ELSE @]
                        IN IF ByEmail(address) \ {target} # {}
                             \* users.email is unique: the commit fails before the log
                             THEN /\ last' = Response("admin_user_edit", a, 0, action, <<"500">>)
                                  /\ UNCHANGED <<users, tickets, logs>>
                             ELSE /\ users' = [users EXCEPT ![target] = edited]
                                  /\ logs' = LogAction(logs, Some(a), "admin_update_user", address)
                                  /\ last' = Response("admin_user_edit", a, 0, action, <<"updated">>)
                                  /\ UNCHANGED tickets
  /\ UNCHANGED <<messages, now, fticket, fnumber, portal>>

(* ------------------------ accounts and settings ---------------------- *)

NameInputs == {<<" ">>, <<"n">>}
EmailInputs == {<<>>, <<"u", "1">>, <<" ", "U", "1">>, <<"n">>}
PasswordInputs == {<<>>, <<"p">>, <<"q">>}

\* get_setting("allow_admin_signup", "false")
GetSetting == IF settings = None THEN "false" ELSE settings[1]

\* init_db: "Inisialisasi setting default"
InitDb ==
  /\ settings' = IF settings = None THEN Some("false") ELSE settings
  /\ last' = Response("init_db", NoSession, 0, "", <<"initialized">>)
  /\ UNCHANGED <<users, tickets, messages, logs, now, fticket, fnumber,
                 session, registrations, reactions, reqs, numbering>>

\* POST /admin/settings by the session user a, with the form's check box
AdminSettingsPost(a, allow) ==
  /\ IF a = NoSession
       THEN /\ last' = Response("admin_settings", a, 0, "", <<"login">>)
            /\ UNCHANGED <<settings, logs>>
       ELSE IF ~IsAdmin(a)
         THEN /\ last' = Response("admin_settings", a, 0, "", <<"no_admin_access">>)
              /\ UNCHANGED <<settings, logs>>
         ELSE /\ LogCount < MaxLogs
              /\ settings' = Some(IF allow THEN "true" ELSE "false")
              /\ logs' = LogAction(logs, Some(a), "admin_update_setting",
                                   <<"allow_admin_signup=", IF allow THEN "True" ELSE "False">>)
              /\ last' = Response("admin_settings", a, 0, "", <<"updated">>)
  /\ UNCHANGED <<users, tickets, messages, now, fticket, fnumber,
                 session, registrations, reactions, reqs, numbering>>

\* the slot of a users row that was never inserted
FreeUser ==
  [exists |-> FALSE, role |-> "user", is_active |-> TRUE, email |-> None, password |-> None]

\* the ids the sequence of users.id has not handed out
FreeIds == {u \in UserIds : users[u] = FreeUser}

\* mutant: the address is looked up as typed
NormalEmail_AsTyped(raw) == Strip(raw)

\* request.form.get("email", "").strip().lower()
NormalEmail(raw) == Lower(Strip(raw))

\* mutant: the check box alone decides
RegisterRole_BoxOnly(allow, as_admin) == IF as_admin THEN "admin" ELSE "user"

\* the role register gives the new account
RegisterRole(allow, as_admin) == IF allow /\ as_admin THEN "admin" ELSE "user"

\* POST /register: werkzeug's hash is kept as the password it accepts
Register(full_name, email, password, password2, as_admin) ==
  LET allow == GetSetting = "true"
      name == Strip(full_name)
      address == NormalEmail(email)
      role == RegisterRole(allow, as_admin)
      box == IF as_admin THEN "on" ELSE ""
  IN
  /\ IF name = <<>> \/ address = <<>> \/ password = <<>>
       THEN /\ last' = Response("register", NoSession, 0, box, <<"fields_required">>)
            /\ UNCHANGED <<users, logs>>
       ELSE IF password # password2
         THEN /\ last' = Response("register", NoSession, 0, box, <<"password_mismatch">>)
              /\ UNCHANGED <<users, logs>>
         ELSE IF ByEmail(address) # {}
           THEN /\ last' = Response("register", NoSession, 0, box, <<"email_taken">>)
                /\ UNCHANGED <<users, logs>>
           ELSE /\ FreeIds # {}
                /\ LogCount < MaxLogs
                /\ LET id == CHOOSE u \in FreeIds : \A v \in FreeIds : u <= v
                   IN /\ users' = [users EXCEPT ![id] =
                                     [exists |-> TRUE, role |-> role, is_active |-> TRUE,
                                      email |-> address, password |-> password]]
                      /\ logs' = LogAction(logs, Some(id), "register", <<"Role=", role>>)
                      /\ last' = Response("register", NoSession, id, box, <<"registered">>)
  /\ UNCHANGED <<tickets, messages, now, fticket, fnumber, portal>>

\* mutant: the account's state is not looked at
LoginAllowed_Always(user) == TRUE

\* "if not user.is_active: ... Akun Anda dinonaktifkan"
LoginAllowed(user) == user.is_active

\* POST /login from the browser
Login(email, password) ==
  LET found == ByEmail(NormalEmail(email)) IN
  /\ IF found = {} \/ (\A u \in found : users[u].password # password)
       THEN /\ last' = Response("login", session, 0, "", <<"wrong_credentials">>)
            /\ UNCHANGED <<session, logs>>
       ELSE LET u == CHOOSE v \in found : TRUE IN
            IF ~LoginAllowed(users[u])
              THEN /\ last' = Response("login", session, 0, "", <<"deactivated">>)
                   /\ UNCHANGED <<session, logs>>
              ELSE /\ LogCount < MaxLogs
                   /\ session' = u
                   /\ logs' = LogAction(logs, Some(u), "login", <<>>)
                   /\ last' = Response("login", session, 0, "", <<"welcome">>)
  /\ UNCHANGED <<users, tickets, messages, now, fticket, fnumber,
                 settings, registrations, reactions, reqs, numbering>>

\* POST /logout from the browser
Logout ==
  /\ session' = NoSession
  /\ IF session # NoSession
       THEN /\ LogCount < MaxLogs
            /\ logs' = LogAction(logs, Some(session), "logout", <<>>)
       ELSE UNCHANGED logs
  /\ last' = Response("logout", session, 0, "", <<"logged_out">>)
  /\ UNCHANGED <<users, tickets, messages, now, fticket, fnumber,
                 settings, registrations, reactions, reqs, numbering>>

(* -------------------------------- news -------------------------------- *)

\* table posts: the published posts, which the handlers below only read
PostIds == 1..NPosts

PostTitle(p) == <<"t", ToString(p)>>

\* s without its i-th element
RemoveAt(s, i) == SubSeq(s, 1, i - 1) \o SubSeq(s, i + 1, Len(s))

\* the rows of post_registrations of user u for post p
RegistrationsOf(u, p) ==
  {i \in 1..Len(registrations) :
     registrations[i].user_id = u /\ registrations[i].post_id = p}

\* mutant: the look-up finds nothing
AlreadyRegistered_Never(u, p) == FALSE

\* PostRegistration.query.filter_by(post_id=..., user_id=...).first()
AlreadyRegistered(u, p) == RegistrationsOf(u, p) # {}

\* POST /news/register/<p> by the session user u
NewsRegister(u, p) ==
  /\ IF u = NoSession
       THEN /\ last' = Response("news_register", u, p, "", <<"login">>)
            /\ UNCHANGED <<registrations, logs>>
       ELSE IF p \notin PostIds
         THEN /\ last' = Response("news_register", u, p, "", <<"404">>)
              /\ UNCHANGED <<registrations, logs>>
         ELSE IF ~users[u].exists
           \* current_user() is None
           THEN /\ last' = Response("news_register", u, p, "", <<"500">>)
                /\ UNCHANGED <<registrations, logs>>
           ELSE IF AlreadyRegistered(u, p)
             THEN /\ last' = Response("news_register", u, p, "", <<"already_registered">>)
                  /\ UNCHANGED <<registrations, logs>>
             ELSE /\ LogCount < MaxLogs
                  /\ registrations' = Append(registrations, [user_id |-> u, post_id |-> p])
                  /\ logs' = LogAction(logs, Some(u), "register_post",
                                       <<ToString(p), ":">> \o PostTitle(p))
                  /\ last' = Response("news_register", u, p, "", <<"registered">>)
  /\ UNCHANGED <<users, tickets, messages, now, fticket, fnumber,
                 settings, session, reactions, reqs, numbering>>

\* the values of the form field reaction: absent, like, dislike, another
ReactionInputs == {None, Some("like"), Some("dislike"), Some("love")}

\* request.form.get("reaction", "like")
ReactionOf(field) == IF field = None THEN "like" ELSE field[1]

\* the rows of post_reactions of user u for post p
ReactionsOf(u, p) ==
  {i \in 1..Len(reactions) : reactions[i].user_id = u /\ reactions[i].post_id = p}

\* mutant: every request adds a row
ApplyReaction_Add(rows, found, u, p, reaction) ==
  Append(rows, [post_id |-> p, user_id |-> u, reaction_type |-> reaction])

\* the table after news_react, where found holds the index of the row that
\* .first() returned, if any
ApplyReaction(rows, found, u, p, reaction) ==
  IF found # None
    THEN IF rows[found[1]].reaction_type = reaction
      THEN RemoveAt(rows, found[1])
      ELSE [rows EXCEPT ![found[1]].reaction_type = reaction]
    ELSE Append(rows, [post_id |-> p, user_id |-> u, reaction_type |-> reaction])

\* the action news_react logs
ReactionLog(rows, found, reaction) ==
  IF found # None
    THEN IF rows[found[1]].reaction_type = reaction THEN "remove_reaction"
         ELSE "update_reaction"
    ELSE "add_reaction"

\* POST /news/<p>/react by the session user u
NewsReact(u, p, field) ==
  LET reaction == ReactionOf(field) IN
  /\ IF u = NoSession
       THEN /\ last' = Response("news_react", u, p, reaction, <<"login">>)
            /\ UNCHANGED <<reactions, logs>>
       ELSE IF p \notin PostIds
         THEN /\ last' = Response("news_react", u, p, reaction, <<"404">>)
              /\ UNCHANGED <<reactions, logs>>
         ELSE IF reaction \notin {"like", "dislike"}
           THEN /\ last' = Response("news_react", u, p, reaction, <<"unknown_reaction">>)
                /\ UNCHANGED <<reactions, logs>>
           ELSE IF ~users[u].exists
             \* current_user() is None
             THEN /\ last' = Response("news_react", u, p, reaction, <<"500">>)
                  /\ UNCHANGED <<reactions, logs>>
             ELSE /\ LogCount < MaxLogs
                  /\ \E found \in {None} \cup {Some(i) : i \in ReactionsOf(u, p)} :
                       /\ (found = None) = (ReactionsOf(u, p) = {})
                       /\ reactions' = ApplyReaction(reactions, found, u, p, reaction)
                       /\ logs' = LogAction(logs, Some(u),
                                            ReactionLog(reactions, found, reaction),
                                            <<reaction, ":", ToString(p)>>)
                  /\ last' = Response("news_react", u, p, reaction, <<"done">>)
  /\ UNCHANGED <<users, tickets, messages, now, fticket, fnumber,
                 settings, session, registrations, reqs, numbering>>

(* ------------------------------- clock -------------------------------- *)

Tick ==
  /\ now < MaxClock
  /\ now' = now + 1
  /\ last' = NoRequest
  /\ UNCHANGED <<users, tickets, messages, logs, fticket, fnumber, portal>>

(* ------------------------ format_ticket_number ------------------------ *)

\* the offsets from UTC, in hours, of the zone the server runs in: astimezone
\* reads a naive created_at as local time
LocalOffsets == {0, WIBOffset}

IsLeap(y) == (y % 4 = 0 /\ y % 100 # 0) \/ y % 400 = 0

DaysInMonth(y, m) ==
  IF m = 2 THEN (IF IsLeap(y) THEN 29 ELSE 28)
  ELSE IF m \in {4, 6, 9, 11} THEN 30 ELSE 31

NextDay(dt) ==
  IF dt.d < DaysInMonth(dt.y, dt.m) THEN [dt EXCEPT !.d = dt.d + 1]
  ELSE IF dt.m < 12 THEN [dt EXCEPT !.d = 1, !.m = dt.m + 1]
  ELSE [dt EXCEPT !.d = 1, !.m = 1, !.y = dt.y + 1]

\* dt.astimezone(WIB) of a naive dt stored by a server at offset tz
AsWIB(dt, tz) ==
  LET h == dt.h - tz + WIBOffset
  IN IF h >= 24 THEN [NextDay(dt) EXCEPT !.h = h - 24] ELSE [dt EXCEPT !.h = h]

RECURSIVE Digits(_)
Digits(n) == IF n < 10 THEN <<n>> ELSE Digits(n \div 10) \o <<n % 10>>

\* "%0<w>d": at least w digits, zero-filled on the left
ZeroPad(n, w) ==
  LET ds == Digits(n)
  IN IF Len(ds) >= w THEN ds ELSE [i \in 1..(w - Len(ds)) |-> 0] \o ds

\* strftime("%Y%m%d")
DatePrefix(dt) == ZeroPad(dt.y, 4) \o ZeroPad(dt.m, 2) \o ZeroPad(dt.d, 2)

\* the ticket number, as its sequence of digits
format_ticket_number(ticket, tz) ==
  DatePrefix(AsWIB(ticket.created_at, tz)) \o ZeroPad(ticket.id, 3)

\* ticket ids around each change of the number of digits
FmtIds ==
  {10 ^ k : k \in 0..(MaxDigits - 1)} \cup {10 ^ k - 1 : k \in 1..MaxDigits}

\* created_at values (UTC) around the changes of day, month and year in WIB
FmtDates ==
  {dt \in [y : {2024, 2025}, m : {1, 2, 12}, d : {1, 28, 29, 31}, h : {0, 16, 17, 23}] :
     dt.d <= DaysInMonth(dt.y, dt.m)}

FmtTickets == [id : FmtIds, created_at : FmtDates]

\* a page renders the number of one ticket
FormatTicketNumber ==
  /\ fticket # None
  /\ fnumber = None
  /\ \E tz \in LocalOffsets : fnumber' = Some(format_ticket_number(fticket[1], tz))
  /\ UNCHANGED <<users, tickets, messages, logs, now, last, fticket, portal>>

\* the page turns to another ticket
FormatOther ==
  /\ fnumber # None
  /\ \E t \in FmtTickets : fticket' = Some(t)
  /\ fnumber' = None
  /\ UNCHANGED <<users, tickets, messages, logs, now, last, portal>>

(* ------------------------- profile: ticket history -------------------- *)

\* dt + n hours
RECURSIVE AddHours(_, _)
AddHours(dt, n) ==
  IF n = 0 THEN dt
  ELSE IF dt.h + 1 >= 24 THEN AddHours([NextDay(dt) EXCEPT !.h = 0], n - 1)
  ELSE AddHours([dt EXCEPT !.h = dt.h + 1], n - 1)

\* the UTC datetimes of clock 0: the hour before the day, the month or the
\* year changes, in WIB or in UTC
Epochs ==
  {[y |-> 2024, m |-> 2, d |-> 28, h |-> 16],
   [y |-> 2024, m |-> 12, d |-> 31, h |-> 23]}

\* the id the tickets sequence hands out first: a fresh table, or the last id
\* of MaxDigits - 1 digits
FirstIds == {1, 10 ^ (MaxDigits - 1) - 1}

\* a deployment whose pages have shown no ticket number yet
Deployment(zone, epoch, first_id) ==
  [zone |-> zone, epoch |-> epoch, first_id |-> first_id, shown |-> <<>>]

\* a server in UTC with an empty tickets table
FreshDeployment == Deployment(0, CHOOSE e \in Epochs : e.h = 16, 1)

\* datetime.utcnow() at clock c: the default of Ticket.created_at
utcnow(c) == AddHours(numbering.epoch, c)

\* the tickets row at position t, as format_ticket_number reads it
TicketRow(t) ==
  [id |-> numbering.first_id + t - 1, created_at |-> utcnow(tickets[t].created_at)]

\* Ticket.query.filter_by(user_id=u)
TicketsOf(u) == {t \in TicketIds : tickets[t].user_id = u}

\* the number of ticket t computed from the current time instead of created_at
TicketNumber_Today(t) ==
  format_ticket_number([TicketRow(t) EXCEPT !.created_at = utcnow(now)], numbering.zone)

\* ticket_no of ticket t on the profile page
TicketNumber(t) == format_ticket_number(TicketRow(t), numbering.zone)

\* the numbers shown so far, after the page of user u is rendered
TicketHistory(u) ==
  [t \in (DOMAIN numbering.shown) \cup TicketsOf(u) |->
     IF t \in TicketsOf(u) THEN TicketNumber(t) ELSE numbering.shown[t]]

\* GET /profile by the session user u
Profile(u) ==
  /\ IF u = NoSession
       THEN /\ last' = Response("profile", u, 0, "", <<"login">>)
            /\ UNCHANGED numbering
       ELSE IF ~users[u].exists
         THEN /\ last' = Response("profile", u, 0, "", <<"error">>)
              /\ UNCHANGED numbering
         ELSE /\ numbering' = [numbering EXCEPT !.shown = TicketHistory(u)]
              /\ last' = Response("profile", u, 0, "", <<"page">>)
  /\ UNCHANGED <<users, tickets, messages, logs, now, fticket, fnumber,
                 settings, session, registrations, reactions, reqs>>

(* --------------------------- specifications --------------------------- *)

\* a users row as it stands at the start
InitUser(u, role) ==
  [exists |-> TRUE, role |-> role, is_active |-> TRUE,
   email |-> InitEmail(u), password |-> InitPassword]

InitUsers ==
  \E r \in [UserIds -> Roles] :
    /\ r[1] = "admin"
    /\ users = [u \in UserIds |-> InitUser(u, r[u])]

Init ==
  /\ InitUsers
  /\ tickets = <<>>
  /\ messages = <<>>
  /\ logs = EmptyBag
  /\ now = 0
  /\ last = NoRequest
  /\ fticket = None
  /\ fnumber = None
  /\ settings = Some("false")
  /\ session = NoSession
  /\ registrations = <<>>
  /\ reactions = <<>>
  /\ reqs = [r \in Reqs |-> IdleReq]
  /\ numbering = FreshDeployment

\* the form of an edit that keeps the account as it logs in: the ticket and
\* chat handlers read of a users row only its id and role
KeepLogin == [active |-> TRUE, email |-> <<>>, newpw |-> <<>>]

\* the ticket workflow: tickets, admin actions, user administration, time
Next ==
  \/ \E u \in UserIds, desc \in DescInputs : TicketNew(u, desc)
  \/ \E a \in SessionIds, action \in Actions, tid \in 1..MaxTickets, raw \in NoteInputs :
       AdminTicketsPost(a, action, tid, raw)
  \/ \E a \in UserIds, target \in UserIds, action \in {"delete", "update"}, role \in Roles :
       AdminUserEdit(a, target, action, role, KeepLogin.active, KeepLogin.email, KeepLogin.newpw)
  \/ Tick

Spec == Init /\ [][Next]_vars

\* the ticket chat: the chat handlers read of a ticket only its owner, and the
\* admin actions never touch ticket_messages
NextChat ==
  \/ \E u \in UserIds, desc \in DescInputs : TicketNew(u, desc)
  \/ \E u \in UserIds, tid \in 1..MaxTickets : ChatMessages(u, tid)
  \/ \E u \in UserIds, tid \in 1..MaxTickets, raw \in MsgInputs : ChatSend(u, tid, raw)
  \/ \E a \in UserIds, target \in UserIds, action \in {"delete", "update"}, role \in Roles :
       AdminUserEdit(a, target, action, role, KeepLogin.active, KeepLogin.email, KeepLogin.newpw)

SpecChat == Init /\ [][NextChat]_vars

\* accounts: one browser registers, logs in and out, and acts as the user it
\* is logged in as; the other accounts exist at the start or are yet to register
InitAuth ==
  /\ \E present \in SUBSET (UserIds \ {1}) :
       users = [u \in UserIds |->
                  IF u = 1 THEN InitUser(u, "admin")
                  ELSE IF u \in present THEN InitUser(u, "user") ELSE FreeUser]
  /\ tickets = <<>>
  /\ messages = <<>>
  /\ logs = EmptyBag
  /\ now = 0
  /\ last = NoRequest
  /\ fticket = None
  /\ fnumber = None
  /\ settings = None
  /\ session = NoSession
  /\ registrations = <<>>
  /\ reactions = <<>>
  /\ reqs = [r \in Reqs |-> IdleReq]
  /\ numbering = FreshDeployment

NextAuth ==
  \/ InitDb
  \/ \E allow \in BOOLEAN : AdminSettingsPost(session, allow)
  \/ \E full_name \in NameInputs, email \in EmailInputs, as_admin \in BOOLEAN :
       \E password \in PasswordInputs, password2 \in PasswordInputs \ {<<>>} :
         Register(full_name, email, password, password2, as_admin)
  \/ \E email \in EmailInputs, password \in PasswordInputs : Login(email, password)
  \/ Logout
  \/ \E target \in UserIds, action \in {"delete", "update"}, role \in Roles :
       \E active \in BOOLEAN, email \in {<<>>, <<"N">>}, newpw \in {<<>>, <<"q">>} :
         AdminUserEdit(session, target, action, role, active, email, newpw)

SpecAuth == InitAuth /\ [][NextAuth]_vars

\* the news feed: registrations and reactions of the users to the posts
NextNews ==
  \/ \E u \in SessionIds, p \in 1..(NPosts + 1) : NewsRegister(u, p)
  \/ \E u \in SessionIds, p \in 1..(NPosts + 1), field \in ReactionInputs :
       NewsReact(u, p, field)
  \/ \E a \in UserIds, target \in UserIds, action \in {"delete", "update"}, role \in Roles :
       AdminUserEdit(a, target, action, role, KeepLogin.active, KeepLogin.email, KeepLogin.newpw)

SpecNews == Init /\ [][NextNews]_vars

\* admin_tickets POSTs served at the same time
NextRace ==
  \/ \E u \in UserIds, desc \in DescInputs : TicketNew(u, desc)
  \/ \E r \in Reqs, a \in SessionIds, action \in Actions, tid \in 1..MaxTickets :
       \E raw \in RaceNoteInputs : RaceStart(r, a, action, tid, raw)
  \/ \E r \in Reqs : RaceLogAction(r)
  \/ \E r \in Reqs : RaceAppendNote(r)
  \/ \E r \in Reqs : RaceCommit(r)

SpecRace == Init /\ [][NextRace]_vars

\* the ticket number of any ticket the table can hold
InitFmt ==
  /\ users = [u \in UserIds |-> InitUser(u, "admin")]
  /\ tickets = <<>>
  /\ messages = <<>>
  /\ logs = EmptyBag
  /\ now = 0
  /\ last = NoRequest
  /\ \E t \in FmtTickets : fticket = Some(t)
  /\ fnumber = None
  /\ settings = Some("false")
  /\ session = NoSession
  /\ registrations = <<>>
  /\ reactions = <<>>
  /\ reqs = [r \in Reqs |-> IdleReq]
  /\ numbering = FreshDeployment

NextFmt == FormatTicketNumber \/ FormatOther

SpecFmt == InitFmt /\ [][NextFmt]_vars

\* the ticket numbers of a deployment with one admin: its zone, the day it
\* starts on and the first id of its tickets sequence are fixed before the
\* first request
InitNumber ==
  /\ users = [u \in UserIds |-> InitUser(u, IF u = 1 THEN "admin" ELSE "user")]
  /\ tickets = <<>>
  /\ messages = <<>>
  /\ logs = EmptyBag
  /\ now = 0
  /\ last = NoRequest
  /\ fticket = None
  /\ fnumber = None
  /\ settings = Some("false")
  /\ session = NoSession
  /\ registrations = <<>>
  /\ reactions = <<>>
  /\ reqs = [r \in Reqs |-> IdleReq]
  /\ \E zone \in LocalOffsets, epoch \in Epochs, first_id \in FirstIds :
       numbering = Deployment(zone, epoch, first_id)

\* tickets are opened and the first MaxTickets of them worked on while their
\* owners look at their numbers
NextNumber ==
  \/ \E u \in UserIds, desc \in DescInputs : TicketNewUpTo(u, desc, MaxTickets + 1)
  \/ \E a \in UserIds, action \in Actions, tid \in 1..MaxTickets :
       AdminTicketsPost(a, action, tid, <<"a">>)
  \/ \E u \in SessionIds : Profile(u)
  \/ Tick

SpecNumber == InitNumber /\ [][NextNumber]_vars

(* ------------------------------- claims ------------------------------- *)

StatusOrder == <<"open", "in_progress", "resolved", "closed">>

Rank(st) == CHOOSE i \in 1..Len(StatusOrder) : StatusOrder[i] = st

IsPrefix(a, b) == Len(a) <= Len(b) /\ SubSeq(b, 1, Len(a)) = a

\* the step served an admin_tickets POST that updated ticket t
Updated(t) ==
  /\ last'.op = "admin_tickets"
  /\ last'.tid = t
  /\ last'.body = <<"updated">>

\* C1: every status change of a ticket moves it to the status that follows its
\* current one in open -> in_progress -> resolved -> closed; none is skipped.
C1_NoStatusSkipped ==
  [][\A t \in TicketIds :
       tickets'[t].status # tickets[t].status
         => /\ tickets[t].status \in Statuses \ {"closed"}
            /\ tickets'[t].status = StatusOrder[Rank(tickets[t].status) + 1]]_vars

\* C2: every ticket's status is one of open, in_progress, resolved, closed, and
\* the ticket that ticket_new just created is open.
C2_StatusEnum ==
  /\ \A t \in TicketIds : tickets[t].status \in Statuses
  /\ (last.op = "ticket_new" /\ last.body = <<"created">>)
       => (last.tid \in TicketIds /\ tickets[last.tid].status = "open")

\* an unrecognised action was served on a ticket and updated it
C2_Witness ==
  /\ last.op = "admin_tickets"
  /\ last.action = "reopen"
  /\ last.body = <<"updated">>
  /\ tickets[last.tid].admin_note # None

\* C3: the running admin note only grows at its end: every step keeps the old
\* note as a prefix of the new one, and a POST that updates a ticket adds to it
\* exactly one entry, "[<time>] " and the stripped note, after a line break
\* when the note was not empty.
C3_NotesAppendOnly ==
  [][\A t \in TicketIds :
       LET old == tickets[t].admin_note
           new == tickets'[t].admin_note
       IN /\ IsPrefix(old, new)
          /\ Updated(t)
               => \E raw \in NoteInputs :
                    /\ Strip(raw) # <<>>
                    /\ new = old \o (IF old = <<>> THEN <<>> ELSE <<"\n">>)
                               \o <<"[", ToString(now), "]", " ">> \o Strip(raw)
          /\ (new # old) => Updated(t)]_vars

\* a POST has appended a third entry, at a later minute than the first
C3_Witness ==
  /\ last.op = "admin_tickets"
  /\ last.body = <<"updated">>
  /\ NoteCount(tickets[last.tid]) = 3
  /\ now > 0
  /\ SubSeq(tickets[last.tid].admin_note, 1, 3) = <<"[", "0", "]">>

\* C4: a POST that updates an unassigned ticket assigns the acting admin, and
\* no admin_tickets POST changes an assignment that is set.
C4_AssignOnce ==
  [][\A t \in TicketIds :
       last'.op = "admin_tickets"
         => /\ (Updated(t) /\ tickets[t].assigned_admin_id = None)
                 => tickets'[t].assigned_admin_id = Some(last'.uid)
            /\ tickets[t].assigned_admin_id # None
                 => tickets'[t].assigned_admin_id = tickets[t].assigned_admin_id]_vars

\* an admin other than the assigned one has updated the ticket
C4_Witness ==
  /\ last.op = "admin_tickets"
  /\ last.body = <<"updated">>
  /\ tickets[last.tid].assigned_admin_id # None
  /\ tickets[last.tid].assigned_admin_id # Some(last.uid)

\* C5: an admin_tickets POST on a closed ticket leaves its status, admin_note,
\* completed_at and assigned_admin_id as committed and writes no log row.
C5_ClosedIsFrozen ==
  [][\A t \in TicketIds :
       (last'.op = "admin_tickets" /\ last'.tid = t /\ tickets[t].status = "closed")
         => /\ tickets'[t].status = tickets[t].status
            /\ tickets'[t].admin_note = tickets[t].admin_note
            /\ tickets'[t].completed_at = tickets[t].completed_at
            /\ tickets'[t].assigned_admin_id = tickets[t].assigned_admin_id
            /\ logs' = logs]_vars

\* an admin with a note was turned away from a closed ticket that has no
\* assigned admin, so the request had assigned itself before the check
C5_Witness ==
  /\ last.op = "admin_tickets"
  /\ last.body = <<"already_closed">>
  /\ tickets[last.tid].status = "closed"
  /\ tickets[last.tid].assigned_admin_id = None

\* C6: the row chat_send inserts is read for the sender's side and unread for
\* the other: is_read_admin is true and is_read_user false when the sender has
\* role admin, the reverse otherwise.
C6_SenderSideRead ==
  [][Len(messages') > Len(messages)
       => LET m == messages'[Len(messages')]
          IN /\ Len(messages') = Len(messages) + 1
             /\ last'.op = "chat_send"
             /\ m.sender_id = last'.uid
             /\ m.ticket_id = last'.tid
             /\ IF users[last'.uid].role = "admin"
                  THEN m.is_read_admin /\ ~m.is_read_user
                  ELSE ~m.is_read_admin /\ m.is_read_user]_vars

\* chat_send has stored a message of an admin and one of a user who is none
C6_Witness ==
  /\ last.op = "chat_send"
  /\ last.body = <<"json", TRUE>>
  /\ \E i, j \in MessageIds :
       /\ users[messages[i].sender_id].role = "admin"
       /\ messages[i].is_read_admin
       /\ users[messages[j].sender_id].role # "admin"
       /\ messages[j].is_read_user

\* C7: right after the ticket's owner or an admin has opened the chat of a
\* ticket, the unread count shown to that party for the ticket is 0: the one
\* of tickets() for the owner, the one of admin_tickets() for an admin.
C7_OpenedIsRead ==
  (/\ last.op = "chat_messages"
   /\ last.tid \in TicketIds
   /\ users[last.uid].exists
   /\ (users[last.uid].role = "admin" \/ tickets[last.tid].user_id = last.uid))
    => /\ tickets[last.tid].user_id = last.uid => UnreadForUser(last.uid, last.tid) = 0
       /\ users[last.uid].role = "admin" => UnreadForAdmin(last.uid, last.tid) = 0

\* C8: for a logged-in user who is neither an admin nor the ticket's owner,
\* chat_messages returns the empty list and chat_send returns success false,
\* and neither changes a row of ticket_messages.
C8_ChatOwnerOrAdmin ==
  [][(/\ last'.op \in {"chat_messages", "chat_send"}
      /\ last'.tid \in TicketIds
      /\ users[last'.uid].exists
      /\ users[last'.uid].role # "admin"
      /\ tickets[last'.tid].user_id # last'.uid)
       => /\ messages' = messages
          /\ last'.body = IF last'.op = "chat_messages"
                            THEN <<"json", <<>>>> ELSE <<"json", FALSE>>]_vars

\* a user who is neither admin nor owner asked for the messages of a ticket
\* that holds a message no user side has read
C8_Witness ==
  /\ last.op = "chat_messages"
  /\ last.tid \in TicketIds
  /\ users[last.uid].exists
  /\ users[last.uid].role # "admin"
  /\ tickets[last.tid].user_id # last.uid
  /\ \E i \in MessageIds : messages[i].ticket_id = last.tid /\ ~messages[i].is_read_user

\* C9: the ticket number is 8 digits of date and a 3-digit increment, 11 digits
\* in all, for every ticket id >= 1.
C9_ElevenDigits ==
  fnumber # None
    => /\ Len(fnumber[1]) = 11
       /\ \A i \in 1..Len(fnumber[1]) : fnumber[1][i] \in 0..9

\* C10: completed_at is set, to the time of the request, exactly by the step
\* that moves the ticket from in_progress to resolved, and a value that is set
\* is never changed.
C10_CompletedOnce ==
  [][\A t \in TicketIds :
       LET old == tickets[t].completed_at
           new == tickets'[t].completed_at
       IN /\ old # None => new = old
          /\ (old = None /\ new # None)
               <=> (tickets[t].status = "in_progress" /\ tickets'[t].status = "resolved")
          /\ (old = None /\ new # None)
               => (new = Some(now) /\ Updated(t) /\ last'.action = "complete")]_vars

\* complete was served again, a minute or more after the ticket was completed
C10_Witness ==
  /\ last.op = "admin_tickets"
  /\ last.action = "complete"
  /\ last.body = <<"updated">>
  /\ tickets[last.tid].status = "resolved"
  /\ tickets[last.tid].completed_at # None
  /\ tickets[last.tid].completed_at # Some(now)

\* C11: an admin_tickets POST whose admin_note is empty or only whitespace
\* changes no ticket (status, assignment, note, completed_at) and writes no
\* activity-log row, whatever the session, the action and the ticket: a step
\* of admin_tickets that changes a ticket or the log is the step of no POST
\* with a blank note.
C11_NoteMandatory ==
  [][(last'.op = "admin_tickets" /\ (tickets' # tickets \/ logs' # logs))
       => \A raw \in {r \in NoteInputs : Strip(r) = <<>>} :
            ~AdminTicketsPost(last'.uid, last'.action, last'.tid, raw)]_vars

\* an admin was asked for a note on an open, unassigned ticket
C11_Witness ==
  /\ last.op = "admin_tickets"
  /\ last.body = <<"note_required">>
  /\ last.action = "close"
  /\ last.tid \in TicketIds
  /\ tickets[last.tid].status = "open"
  /\ tickets[last.tid].assigned_admin_id = None
  /\ tickets[last.tid].admin_note = None

\* C12: an admin_tickets POST by a session that is not logged in, or whose
\* user is deleted or has a role other than admin when the request reads it,
\* changes no ticket and writes no log row; this holds for a user who was an
\* admin until admin_user_edit changed the role.
C12_AdminOnly ==
  [][(last'.op = "admin_tickets" /\ ~(/\ last'.uid \in UserIds
                                      /\ users[last'.uid].exists
                                      /\ users[last'.uid].role = "admin"))
       => /\ tickets' = tickets
          /\ logs' = logs
          /\ last'.body \in {<<"login">>, <<"no_admin_access">>}]_vars

\* user 1, an admin at the start, was turned away from an open ticket after
\* admin_user_edit had changed the role
C12_Witness ==
  /\ last.op = "admin_tickets"
  /\ last.uid = 1
  /\ last.body = <<"no_admin_access">>
  /\ users[1].exists
  /\ users[1].role = "user"
  /\ last.tid \in TicketIds
  /\ tickets[last.tid].status = "open"
  /\ \E r \in BagToSet(logs) : r.action = "admin_update_user" /\ r.detail = Email(1)

Contains(s, sub) ==
  \E i \in 1..(Len(s) - Len(sub) + 1) : SubSeq(s, i, i + Len(sub) - 1) = sub

\* request r has returned after its last commit
Committed(r) == reqs[r].pc = "done" /\ reqs[r].wrote

\* C19: when two admin_tickets POSTs with notes on the same ticket have both
\* committed, each having loaded the ticket before the other committed, the
\* ticket's admin_note contains both notes, and assigned_admin_id is the admin
\* of the request that committed first if that request found it unassigned.
C19_NoLostNote ==
  \A r1, r2 \in Reqs :
    (/\ r1 # r2
     /\ Committed(r1)
     /\ Committed(r2)
     /\ reqs[r1].tid = reqs[r2].tid
     /\ r2 \in reqs[r1].peers)
      => LET t == tickets[reqs[r1].tid]
         IN /\ Contains(t.admin_note, <<"]", " ">> \o reqs[r1].note)
            /\ Contains(t.admin_note, <<"]", " ">> \o reqs[r2].note)
            /\ reqs[r1].claimed => t.assigned_admin_id = Some(reqs[r1].uid)

\* C20: no state of the database shows a ticket whose status a POST in flight
\* has changed and whose admin_note does not contain that POST's note.
C20_AtomicAction ==
  \A r \in Reqs :
    (reqs[r].pc \in {"note", "commit"} /\ reqs[r].moved)
      => Contains(tickets[reqs[r].tid].admin_note, <<"]", " ">> \o reqs[r].note)

\* C13: a login POST with the e-mail and the password of a user whose
\* is_active is false leaves session user_id as it was and writes no log row:
\* a login step that sets the session or writes a log row is the step of no
\* such POST.
C13_DeactivatedNoLogin ==
  [][(last'.op = "login" /\ (session' # session \/ logs' # logs))
       => \A email \in EmailInputs, password \in PasswordInputs :
            (\E u \in UserIds :
               /\ users[u].exists
               /\ users[u].email = Lower(Strip(email))
               /\ users[u].password = password
               /\ ~users[u].is_active)
              => ~Login(email, password)]_vars

\* the browser, logged out, was refused with the credentials of an account
\* that admin_user_edit had deactivated
C13_Witness ==
  /\ last.op = "login"
  /\ last.body = <<"deactivated">>
  /\ session = NoSession
  /\ \E u \in UserIds : users[u].exists /\ ~users[u].is_active
  /\ \E r \in BagToSet(logs) : r.action = "admin_update_user"

\* C14: the account register creates has role admin exactly when the setting
\* allow_admin_signup read by the request is "true" and the form carries
\* register_as_admin = on, and role user otherwise; the setting reads false
\* until an admin_settings POST, the only step that changes what it reads.
C14_AdminSignupGated ==
  [][/\ \A u \in UserIds :
          (users[u] = FreeUser /\ users'[u] # FreeUser)
            => /\ last'.op = "register"
               /\ users'[u].role =
                    IF GetSetting = "true" /\ last'.action = "on" THEN "admin" ELSE "user"
     /\ GetSetting' # GetSetting
          => (last'.op = "admin_settings" /\ last'.body = <<"updated">>)
     /\ (\A r \in BagToSet(logs) : r.action # "admin_update_setting")
          => GetSetting = "false"]_vars

\* register created an admin, and the setting has been switched off since
C14_Witness ==
  /\ GetSetting = "false"
  /\ \E u \in UserIds :
       /\ users[u].exists
       /\ users[u].role = "admin"
       /\ \E r \in BagToSet(logs) :
            r.action = "register" /\ r.user_id = Some(u) /\ r.detail = <<"Role=", "admin">>

\* C15: a register POST whose e-mail, trimmed and lower-cased, is that of an
\* existing user, or whose full name, e-mail or password is empty, or whose
\* two passwords differ, creates no user (a register step that changes the
\* users table is the step of no such POST); no two users share an e-mail.
C15_NoDuplicateEmail ==
  [][/\ (last'.op = "register" /\ users' # users)
          => \A full_name \in NameInputs, email \in EmailInputs, as_admin \in BOOLEAN :
               \A password \in PasswordInputs, password2 \in PasswordInputs :
                 (\/ \E u \in UserIds :
                        users[u].exists /\ users[u].email = Lower(Strip(email))
                  \/ Strip(full_name) = <<>>
                  \/ Lower(Strip(email)) = <<>>
                  \/ password = <<>>
                  \/ password # password2)
                   => ~Register(full_name, email, password, password2, as_admin)
     /\ \A u, v \in UserIds :
          (users'[u].exists /\ users'[v].exists /\ users'[u].email = users'[v].email)
            => u = v]_vars

\* register refused an address typed in capitals and with a leading blank,
\* taken by an account, while an id was free for a new row
C15_Witness ==
  /\ last.op = "register"
  /\ last.body = <<"email_taken">>
  /\ FreeIds # {}
  /\ \E u \in UserIds : users[u].exists /\ users[u].email = <<"u", "1">>

\* C16: with news_register requests served one after another there is at most
\* one post_registrations row for each user and post, only news_register adds
\* rows, and a request for a pair that has a row adds no row and no log row.
C16_RegisteredOnce ==
  [][/\ \A u \in UserIds, p \in PostIds :
          Cardinality({i \in 1..Len(registrations') :
                         registrations'[i] = [user_id |-> u, post_id |-> p]}) <= 1
     /\ registrations' # registrations
          => /\ last'.op = "news_register"
             /\ registrations' =
                  Append(registrations, [user_id |-> last'.uid, post_id |-> last'.tid])
     /\ (/\ last'.op = "news_register"
         /\ \E i \in 1..Len(registrations) :
              registrations[i] = [user_id |-> last'.uid, post_id |-> last'.tid])
          => (registrations' = registrations /\ logs' = logs)]_vars

\* a user who was registered to the post asked again, while another user is
\* registered to it too
C16_Witness ==
  /\ last.op = "news_register"
  /\ last.body = <<"already_registered">>
  /\ Len(registrations) = 2
  /\ \E i \in 1..Len(registrations) :
       registrations[i] = [user_id |-> last.uid, post_id |-> last.tid]
  /\ \E r \in BagToSet(logs) : r.action = "register_post" /\ r.user_id = Some(last.uid)

\* C17: news_react by a user for a post deletes the user's row when it has the
\* requested type, sets its type when it has the other one, adds a row when
\* there is none, and changes nothing when the value is neither like nor
\* dislike; there is at most one post_reactions row for each user and post.
C17_ReactionToggle ==
  [][/\ \A u \in UserIds, p \in PostIds :
          Cardinality({i \in 1..Len(reactions') :
                         reactions'[i].user_id = u /\ reactions'[i].post_id = p}) <= 1
     /\ reactions' # reactions => last'.op = "news_react"
     /\ (/\ last'.op = "news_react"
         /\ last'.uid \in UserIds
         /\ users[last'.uid].exists
         /\ last'.tid \in PostIds)
          => LET u == last'.uid
                 p == last'.tid
                 kind == last'.action
                 mine == {i \in 1..Len(reactions) :
                            reactions[i].user_id = u /\ reactions[i].post_id = p}
                 row == [post_id |-> p, user_id |-> u, reaction_type |-> kind]
             IN IF kind \notin {"like", "dislike"}
                  THEN reactions' = reactions /\ logs' = logs
                  ELSE IF mine = {}
                    THEN reactions' = Append(reactions, row)
                    ELSE \E i \in mine :
                           IF reactions[i].reaction_type = kind
                             THEN reactions' = SubSeq(reactions, 1, i - 1)
                                                 \o SubSeq(reactions, i + 1, Len(reactions))
                             ELSE reactions' = [reactions EXCEPT ![i] = row]]_vars

\* a user added, switched and removed a reaction, and the last request added
\* one again
C17_Witness ==
  /\ last.op = "news_react"
  /\ last.body = <<"done">>
  /\ \E i \in 1..Len(reactions) :
       reactions[i].user_id = last.uid /\ reactions[i].post_id = last.tid
  /\ \A a \in {"add_reaction", "update_reaction", "remove_reaction"} :
       \E r \in BagToSet(logs) : r.action = a /\ r.user_id = Some(last.uid)
  /\ BagCardinality(logs) = 4

\* C21: ticket numbers identify tickets: two distinct tickets never have the
\* same number, whether computed now or shown on a page earlier, and the number
\* a page shows for a ticket is the one every earlier page showed for it; no
\* step changes the created_at of a ticket.
C21_NumberIdentifies ==
  [][/\ \A s, t \in TicketIds : s # t => TicketNumber(s) # TicketNumber(t)
     /\ \A t \in TicketIds : tickets'[t].created_at = tickets[t].created_at
     /\ \A t \in DOMAIN numbering'.shown :
          /\ \A s \in DOMAIN numbering'.shown :
               s # t => numbering'.shown[s] # numbering'.shown[t]
          /\ t \in DOMAIN numbering.shown
               => numbering'.shown[t] = numbering.shown[t]]_vars

\* the owner of ticket 1 opens the profile page after an admin worked on the
\* ticket; the number of a ticket of another user, opened on the next day in
\* WIB with an id one digit longer, was shown on an earlier page
C21_Witness ==
  /\ last.op = "profile"
  /\ last.body = <<"page">>
  /\ DOMAIN numbering.shown = {1, 2}
  /\ last.uid = tickets[1].user_id
  /\ tickets[2].user_id # tickets[1].user_id
  /\ tickets[1].status # "open"
  /\ tickets[1].created_at < tickets[2].created_at
  /\ SubSeq(numbering.shown[1], 1, 8) # SubSeq(numbering.shown[2], 1, 8)
  /\ Len(numbering.shown[1]) < Len(numbering.shown[2])

====
